---------------------------- MODULE Spec2Model ----------------------------
(***************************************************************************)
(* A model of autode's Complex (src/autode/complex.py) and of the template *)
(* transition-state guess (src/autode/transition_states/ts_guess.py).      *)
(*                                                                         *)
(* Lengths are integers.  One model length unit is 0.1 Angstrom / Scale,   *)
(* where Scale is a common multiple of every possible atom count, so that  *)
(* the centroid of a molecule (np.average) is an exact integer vector.     *)
(* Rotations are restricted to multiples of a quarter turn about a         *)
(* coordinate axis, for which the rotation formula is exact on integers.   *)
(***************************************************************************)
EXTENDS Integers, Sequences, FiniteSets, TLC

\* ------------------------------------------------------------------ bounds
MaxMols == 2

MaxAtoms == 2

MaxOps == 2

\* Config.num_complex_random_rotations
NumRotations == 1

\* Config.num_complex_sphere_points
NumPoints == 2

\* number of templates in the library
MaxTemplates == 2

\* --------------------------------------------------------------- variables
VARIABLES
    molecules,   \* Complex.molecules: sequence of [atoms, charge, mult]; atoms are heap ids
    coord,       \* the heap of Atom objects: atom id -> coordinate
    atoms,       \* Complex.atoms (Species.atoms): sequence of heap ids
    charge,      \* Complex.charge
    mult,        \* Complex.mult
    lastCall,    \* the last public call on the complex, its arguments and its outcome
    nOps,        \* number of calls made so far
    conformers,  \* Complex.conformers: sequence of [name, atoms, charge, mult]
    gen,         \* _generate_conformers: its position and its local variables
    lib,         \* get_ts_templates(): the template library, in its stored order
    bonds,       \* bond_rearrangement.all: the active bonds
    objs,        \* the heap of species objects: id -> [atoms, energy, graph]
    ts,          \* get_template_ts_guess: its position and its local variables
    calcs,       \* the Calculation jobs created, in order
    result       \* what get_template_ts_guess returned

complexVars == <<molecules, coord, atoms, charge, mult>>

callVars == <<lastCall, nOps>>

genVars == <<conformers, gen>>

tsVars == <<lib, bonds, objs, ts, calcs, result>>

vars == <<molecules, coord, atoms, charge, mult, lastCall, nOps, conformers, gen,
          lib, bonds, objs, ts, calcs, result>>

\* ------------------------------------------------------------ arithmetic
Min(a, b) == IF a < b THEN a ELSE b

Max(a, b) == IF a > b THEN a ELSE b

RECURSIVE Gcd(_, _)
Gcd(a, b) == IF b = 0 THEN a ELSE Gcd(b, a % b)

RECURSIVE LcmUpTo(_)
LcmUpTo(n) == IF n <= 1 THEN 1 ELSE (LcmUpTo(n - 1) * n) \div Gcd(LcmUpTo(n - 1), n)

\* model length units per 0.1 Angstrom
Scale == LcmUpTo(MaxAtoms)

\* ------------------------------------------------------------ 3-vectors
VAdd(u, v) == <<u[1] + v[1], u[2] + v[2], u[3] + v[3]>>

VNeg(u) == <<-u[1], -u[2], -u[3]>>

VSub(u, v) == VAdd(u, VNeg(v))

VScale(c, u) == <<c * u[1], c * u[2], c * u[3]>>

Dot(u, v) == u[1] * v[1] + u[2] * v[2] + u[3] * v[3]

Cross(u, v) == <<u[2] * v[3] - u[3] * v[2], u[3] * v[1] - u[1] * v[3], u[1] * v[2] - u[2] * v[1]>>

\* cos and sin of q quarter turns
CosQ(q) == CASE q % 4 = 0 -> 1 [] q % 4 = 1 -> 0 [] q % 4 = 2 -> -1 [] OTHER -> 0

SinQ(q) == CASE q % 4 = 0 -> 0 [] q % 4 = 1 -> 1 [] q % 4 = 2 -> 0 [] OTHER -> -1

\* Atom.translate(vec): coord += vec
Translate(c, vec) == VAdd(c, vec)

\* Atom.rotate(axis, theta) for a unit axis and theta = q quarter turns
\* (Rodrigues: v cos + (a x v) sin + a (a.v)(1 - cos))
Rotate(c, axis, q) ==
    VAdd(VAdd(VScale(CosQ(q), c), VScale(SinQ(q), Cross(axis, c))),
         VScale(Dot(axis, c) * (1 - CosQ(q)), axis))

\* ------------------------------------------------------- python helpers
\* s[:m] of a python sequence (a negative m counts from the end)
PyPrefix(s, m) ==
    IF m >= 0 THEN SubSeq(s, 1, Min(m, Len(s)))
              ELSE SubSeq(s, 1, Max(0, Len(s) + m))

\* list(range(a, b))
PyRange(a, b) == [j \in 1..Max(0, b - a) |-> a + j - 1]

RECURSIVE SumSeq(_)
SumSeq(s) == IF s = <<>> THEN 0 ELSE s[1] + SumSeq(Tail(s))

SeqToSet(s) == {s[j] : j \in 1..Len(s)}

\* mol.n_atoms
n_atoms(mol) == Len(mol.atoms)

\* ----------------------------------------------------------------- inputs
\* number of atoms of each molecule handed to the constructor
MolSizes == UNION {[1..k -> 1..MaxAtoms] : k \in 1..MaxMols}

\* (charge, multiplicity) of a molecule
Neutral == [charge |-> 0, mult |-> 1]

SpeciesKinds == {Neutral, [charge |-> -1, mult |-> 2]}

\* translation vectors
Vecs == {<<Scale, 0, 0>>, <<0, -3 * Scale, 2 * Scale>>}

\* rotations: a unit axis, an angle in quarter turns, an origin
Rotations ==
    {[axis |-> <<0, 0, 1>>, theta |-> 1, origin |-> <<Scale, Scale, 0>>],
     [axis |-> <<1, 0, 0>>, theta |-> 2, origin |-> <<0, 0, 0>>]}

\* the molecules: molecule i owns the heap ids after those of molecules 1..i-1
MoleculesOf(sizes, kinds) ==
    [i \in 1..Len(sizes) |->
        [atoms  |-> [j \in 1..sizes[i] |-> SumSeq(SubSeq(sizes, 1, i - 1)) + j],
         charge |-> kinds[i].charge,
         mult   |-> kinds[i].mult]]

\* atom j of molecule m sits at j Angstrom along the molecule's layout direction
RECURSIVE InitialHeap(_, _)
InitialHeap(sizes, layouts) ==
    IF sizes = <<>> THEN <<>>
    ELSE [j \in 1..sizes[1] |-> VScale(j * 10 * Scale, layouts[1])]
            \o InitialHeap(Tail(sizes), Tail(layouts))

UnitX == <<1, 0, 0>>

UnitY == <<0, 1, 0>>

UnitZ == <<0, 0, 1>>

\* what a call returned: nothing yet, None, or a TSguess
Pending == [kind |-> "pending"]

None == [kind |-> "None"]

\* an energy that is not set (None); an energy e that is set is <<e>>
NoEnergy == <<>>

\* get_template_ts_guess has not been called
TSIdle == [pc |-> "idle", idx |-> 0, accepted |-> 0, active_bonds_and_dists_ts |-> <<>>, mol_graph |-> {}]

\* no reaction is at hand
NoTSGuess ==
    /\ lib = <<>>
    /\ bonds = <<>>
    /\ objs = <<>>
    /\ ts = TSIdle
    /\ calcs = <<>>
    /\ result = Pending

\* _generate_conformers has not been called: its local variables hold nothing
GenIdle ==
    [pc |-> "idle", repeated |-> FALSE, n |-> 0, rot |-> 0, pt |-> 0,
     first_mol_atoms |-> <<>>, mol_centroid |-> <<0, 0, 0>>,
     rotated_atoms |-> <<>>, shifted_atoms |-> <<>>]

\* ------------------------------------------------------ Complex.__init__
\* deepcopy(mol.atoms): fresh Atom objects with the same coordinates
deepcopy_shallow(heap, ids) == [ids |-> ids, heap |-> heap]

deepcopy(heap, ids) ==
    LET base == Len(heap)
    IN [ids  |-> [j \in 1..Len(ids) |-> base + j],
        heap |-> heap \o [j \in 1..Len(ids) |-> heap[ids[j]]]]

\* for mol in self.molecules: complex_atoms += deepcopy(mol.atoms)
RECURSIVE complex_atoms(_, _, _)
complex_atoms(heap, mols, acc) ==
    IF mols = <<>> THEN [ids |-> acc, heap |-> heap]
    ELSE LET c == deepcopy(heap, mols[1].atoms)
         IN complex_atoms(c.heap, Tail(mols), acc \o c.ids)

complex_charge(mols) == SumSeq([i \in 1..Len(mols) |-> mols[i].charge])

complex_mult(mols) == SumSeq([i \in 1..Len(mols) |-> mols[i].mult]) - (Len(mols) - 1)

NoCall == [op |-> "none", mol_index |-> 0, raised |-> FALSE, ret |-> <<>>]

\* the state after Complex(*args)
ComplexInit(mols, heap) ==
    LET c == complex_atoms(heap, mols, <<>>)
    IN /\ molecules = mols
       /\ atoms = c.ids
       /\ coord = c.heap
       /\ charge = complex_charge(mols)
       /\ mult = complex_mult(mols)

InitComplex ==
    /\ \E sizes \in MolSizes :
          ComplexInit(MoleculesOf(sizes, [i \in 1..Len(sizes) |-> Neutral]),
                      InitialHeap(sizes, [i \in 1..Len(sizes) |->
                                            <<UnitX, UnitY, UnitZ>>[(i % 3) + 1]]))
    /\ lastCall = NoCall
    /\ nOps = 0
    /\ conformers = <<>>
    /\ gen = GenIdle
    /\ NoTSGuess

\* ------------------------------------------------ Complex.get_atom_indexes
first_index(mols, mol_index) ==
    SumSeq([i \in 1..Len(PyPrefix(mols, mol_index)) |-> n_atoms(mols[i])])

last_index_off(mols, mol_index) ==
    SumSeq([i \in 1..Len(PyPrefix(mols, mol_index)) |-> n_atoms(mols[i])]) + 1

last_index(mols, mol_index) ==
    SumSeq([i \in 1..Len(PyPrefix(mols, mol_index + 1)) |-> n_atoms(mols[i])])

\* assert mol_index < len(self.molecules)
assert_mol_index(mols, mol_index) == mol_index < Len(mols)

\* the list returned when the assertion passes (0-based atom indexes)
get_atom_indexes(mols, mol_index) ==
    PyRange(first_index(mols, mol_index), last_index(mols, mol_index))

\* ------------------------------------- translate_mol, rotate_mol (loops)
\* for atom_index in idxs: self.atoms[atom_index].translate(vec)
RECURSIVE translate_loop(_, _, _, _)
translate_loop(heap, ats, idxs, vec) ==
    IF idxs = <<>> THEN heap
    ELSE LET a == ats[idxs[1] + 1]
         IN translate_loop([heap EXCEPT ![a] = Translate(@, vec)], ats, Tail(idxs), vec)

\* for atom_index in idxs: translate(-origin); rotate(axis, theta); translate(origin)
RECURSIVE rotate_loop(_, _, _, _, _, _)
rotate_loop(heap, ats, idxs, axis, theta, origin) ==
    IF idxs = <<>> THEN heap
    ELSE LET a == ats[idxs[1] + 1]
             c == Translate(Rotate(Translate(heap[a], VNeg(origin)), axis, theta), origin)
         IN rotate_loop([heap EXCEPT ![a] = c], ats, Tail(idxs), axis, theta, origin)

\* squared distance between two points
Dist2(u, v) == Dot(VSub(u, v), VSub(u, v))

\* the pairs (atom of the molecule, other atom) calc_repulsion sums 1/r^4 over,
\* given with the squared distance of each; the value is 0.5 * sum of d2^-2
repulsion_terms(heap, ats, idxs) ==
    {<<i, j, Dist2(heap[ats[i + 1]], heap[ats[j + 1]])>> :
        i \in SeqToSet(idxs), j \in {x \in 0..(Len(ats) - 1) : x \notin SeqToSet(idxs)}}

\* a mol_index argument: in range, too large, and negative
MolIndexes == (-(Len(molecules) + 1))..Len(molecules)

Raised(op, i) == [op |-> op, mol_index |-> i, raised |-> TRUE, ret |-> <<>>]

Returned(op, i, r) == [op |-> op, mol_index |-> i, raised |-> FALSE, ret |-> r]

GetAtomIndexes ==
    /\ nOps < MaxOps
    /\ \E i \in MolIndexes :
          lastCall' = IF assert_mol_index(molecules, i)
                      THEN Returned("get_atom_indexes", i, get_atom_indexes(molecules, i))
                      ELSE Raised("get_atom_indexes", i)
    /\ nOps' = nOps + 1
    /\ UNCHANGED <<molecules, coord, atoms, charge, mult, conformers, gen, tsVars>>

TranslateMol ==
    /\ nOps < MaxOps
    /\ \E i \in MolIndexes, vec \in Vecs :
          IF assert_mol_index(molecules, i)
          THEN /\ coord' = translate_loop(coord, atoms, get_atom_indexes(molecules, i), vec)
               /\ lastCall' = Returned("translate_mol", i, vec)
          ELSE /\ coord' = coord
               /\ lastCall' = Raised("translate_mol", i)
    /\ nOps' = nOps + 1
    /\ UNCHANGED <<molecules, atoms, charge, mult, conformers, gen, tsVars>>

RotateMol ==
    /\ nOps < MaxOps
    /\ \E i \in MolIndexes, r \in Rotations :
          IF assert_mol_index(molecules, i)
          THEN /\ coord' = rotate_loop(coord, atoms, get_atom_indexes(molecules, i),
                                       r.axis, r.theta, r.origin)
               /\ lastCall' = Returned("rotate_mol", i, r)
          ELSE /\ coord' = coord
               /\ lastCall' = Raised("rotate_mol", i)
    /\ nOps' = nOps + 1
    /\ UNCHANGED <<molecules, atoms, charge, mult, conformers, gen, tsVars>>

CalcRepulsion ==
    /\ nOps < MaxOps
    /\ \E i \in MolIndexes :
          lastCall' = IF assert_mol_index(molecules, i)
                      THEN Returned("calc_repulsion", i,
                                    repulsion_terms(coord, atoms, get_atom_indexes(molecules, i)))
                      ELSE Raised("calc_repulsion", i)
    /\ nOps' = nOps + 1
    /\ UNCHANGED <<molecules, coord, atoms, charge, mult, conformers, gen, tsVars>>

NextComplex == GetAtomIndexes \/ TranslateMol \/ RotateMol \/ CalcRepulsion

SpecComplex == InitComplex /\ [][NextComplex]_vars

\* ------------------------------------------- Complex._generate_conformers
\* the shift of one step of the while loop, in tenths of an Angstrom (0.1 A)
StepTenths == 1

\* the separation the while loop waits for, in tenths of an Angstrom (2.0 A)
MinSepTenths == 20

\* self.name, and f'{self.name}_conf{n}'
ComplexName == "complex"

conformer_name(n) == <<ComplexName, "_conf", n>>

\* the coordinates of a list of atoms
CoordsOf(heap, ids) == [j \in 1..Len(ids) |-> heap[ids[j]]]

\* np.average(coordinates, axis=0)
Centroid(cs) ==
    <<SumSeq([j \in 1..Len(cs) |-> cs[j][1]]) \div Len(cs),
      SumSeq([j \in 1..Len(cs) |-> cs[j][2]]) \div Len(cs),
      SumSeq([j \in 1..Len(cs) |-> cs[j][3]]) \div Len(cs)>>

\* get_points_on_sphere(n_points): points of length 1
SpherePointList == <<UnitX, VNeg(UnitX), UnitY, VNeg(UnitY), UnitZ, VNeg(UnitZ)>>

get_points_on_sphere(n_points) ==
    [p \in 1..n_points |-> SpherePointList[((p - 1) % Len(SpherePointList)) + 1]]

\* theta, axis = np.random.uniform(...): the rotations the model draws from
RandomRotations == {[axis |-> UnitZ, theta |-> 1], [axis |-> UnitX, theta |-> 3]}

\* the squared entries of distance_matrix(first_mol_coords, mol_coords)
distances2(first, other) ==
    {Dist2(first[i], other[j]) : i \in 1..Len(first), j \in 1..Len(other)}

SetMin(S) == CHOOSE d \in S : \A e \in S : d <= e

SetMax(S) == CHOOSE d \in S : \A e \in S : d >= e

MinSep2 == (MinSepTenths * Scale) * (MinSepTenths * Scale)

far_enough_apart_max(first, other) == SetMax(distances2(first, other)) > MinSep2

\* np.min(distance_matrix(first_mol_coords, mol_coords)) > 2.0
far_enough_apart(first, other) == SetMin(distances2(first, other)) > MinSep2

new_conformer_moved_only(g, shifted) ==
    [name |-> conformer_name(g.n), atoms |-> shifted, charge |-> charge, mult |-> mult]

\* Conformer(name=f'{self.name}_conf{n}', atoms=first_mol_atoms+shifted_atoms, ...)
new_conformer(g, shifted) ==
    [name   |-> conformer_name(g.n),
     atoms  |-> g.first_mol_atoms \o shifted,
     charge |-> charge,
     mult   |-> mult]

\* the call, up to the first pass of the rotation loop (lines 31-44); a second
\* call on the same complex is made once
GenStart ==
    /\ gen.pc = "idle" \/ (gen.pc = "done" /\ ~gen.repeated)
    /\ Len(molecules) >= 2
    /\ LET first == CoordsOf(coord, molecules[1].atoms)
       IN gen' = [gen EXCEPT
                    !.pc = "rotations", !.repeated = (gen.pc = "done"),
                    !.n = 0, !.rot = 0, !.pt = 0,
                    !.first_mol_atoms = [j \in 1..Len(first) |-> VSub(first[j], Centroid(first))],
                    !.mol_centroid = Centroid(CoordsOf(coord, molecules[2].atoms)),
                    !.rotated_atoms = <<>>, !.shifted_atoms = <<>>]
    /\ conformers' = <<>>
    /\ UNCHANGED <<complexVars, callVars, tsVars>>

\* one pass of "for _ in range(num_complex_random_rotations)" up to the point loop
GenRotate ==
    /\ gen.pc = "rotations"
    /\ gen.rot < NumRotations
    /\ \E r \in RandomRotations :
          LET second == CoordsOf(coord, molecules[2].atoms)
          IN gen' = [gen EXCEPT
                       !.pc = "points", !.rot = gen.rot + 1, !.pt = 0,
                       !.rotated_atoms =
                           [j \in 1..Len(second) |->
                               Rotate(Translate(second[j], VNeg(gen.mol_centroid)),
                                      r.axis, r.theta)]]
    /\ UNCHANGED <<complexVars, callVars, conformers, tsVars>>

\* the rotation loop is exhausted: return None
GenReturn ==
    /\ gen.pc = "rotations"
    /\ gen.rot = NumRotations
    /\ gen' = [gen EXCEPT !.pc = "done"]
    /\ UNCHANGED <<complexVars, callVars, conformers, tsVars>>

\* one pass of "for point in get_points_on_sphere(...)" up to the while loop
GenPoint ==
    /\ gen.pc = "points"
    /\ gen.pt < NumPoints
    /\ gen' = [gen EXCEPT !.pc = "shift", !.shifted_atoms = gen.rotated_atoms]
    /\ UNCHANGED <<complexVars, callVars, conformers, tsVars>>

\* the point loop is exhausted: back to the rotation loop
GenPointsDone ==
    /\ gen.pc = "points"
    /\ gen.pt = NumPoints
    /\ gen' = [gen EXCEPT !.pc = "rotations"]
    /\ UNCHANGED <<complexVars, callVars, conformers, tsVars>>

\* one pass of "while not far_enough_apart", and what follows the loop when it ends
GenShift ==
    /\ gen.pc = "shift"
    /\ LET point == get_points_on_sphere(NumPoints)[gen.pt + 1]
           shifted == [j \in 1..Len(gen.shifted_atoms) |->
                          VAdd(gen.shifted_atoms[j], VScale(StepTenths * Scale, point))]
       IN IF far_enough_apart(gen.first_mol_atoms, shifted)
          THEN /\ conformers' = Append(conformers, new_conformer(gen, shifted))
               /\ gen' = [gen EXCEPT !.pc = "points", !.pt = gen.pt + 1,
                                     !.n = gen.n + 1, !.shifted_atoms = shifted]
          ELSE /\ conformers' = conformers
               /\ gen' = [gen EXCEPT !.shifted_atoms = shifted]
    /\ UNCHANGED <<complexVars, callVars, tsVars>>

\* the two molecules of the complex: sizes, layout directions, charges
InitConformers ==
    /\ \E sizes \in [1..2 -> 1..MaxAtoms], layouts \in [1..2 -> {UnitX, UnitY}],
          kind \in SpeciesKinds :
          ComplexInit(MoleculesOf(sizes, <<Neutral, kind>>), InitialHeap(sizes, layouts))
    /\ lastCall = NoCall
    /\ nOps = 0
    /\ conformers = <<>>
    /\ gen = GenIdle
    /\ NoTSGuess

NextConformers ==
    GenStart \/ GenRotate \/ GenReturn \/ GenPoint \/ GenPointsDone \/ GenShift

SpecConformers == InitConformers /\ [][NextConformers]_vars

\* the call is sequential code: it takes its next step whenever it has one
FairSpecConformers == SpecConformers /\ WF_vars(NextConformers)

\* -------------------------------------------------- get_template_ts_guess
\* dist_thresh=4.0, in tenths of an Angstrom
dist_thresh == 40

\* the ids of the caller's reactant and product in the heap of species objects
ReactantId == 1

ProductId == 2

Bond01 == <<0, 1>>

Bond12 == <<1, 2>>

\* bond_rearrangement.all
BondRearrangements == {<<Bond01>>, <<Bond01, Bond12>>}

\* current lengths of an active bond in the reactant, in tenths of an Angstrom
ReactantDists == {18, 40, 45}

\* energies an optimisation may return
Energies == {-7, -9}

\* get_mapping_ts_template(...): reactant node -> template node; node 2 may be unmapped
Mappings == {[v \in 0..2 |-> v], [v \in 0..1 |-> v]}

\* ts_template.graph.edges: edge -> attributes
EdgeTables ==
    {({0, 1} :> [distance |-> 15]) @@ ({1, 2} :> [distance |-> 21]),
     ({0, 1} :> [distance |-> 17]) @@ ({1, 2} :> [distance |-> 23]),
     ({0, 1} :> [distance |-> 15]),
     ({1, 2} :> [distance |-> 21]),
     ({0, 1} :> [distance |-> 15]) @@ ({1, 2} :> [order |-> 1])}

\* a template, with what template_matches and get_mapping_ts_template give for it
Templates ==
    {[matches |-> TRUE, mapping |-> m, edges |-> e] : m \in Mappings, e \in EdgeTables}
      \cup {[matches |-> FALSE, mapping |-> [v \in 0..2 |-> v],
              edges |-> ({0, 1} :> [distance |-> 15]) @@ ({1, 2} :> [distance |-> 21])]}

Libraries == UNION {[1..k -> Templates] : k \in 0..MaxTemplates}

\* a lookup that raised KeyError; a lookup that gave d is <<d>>
KeyError == <<>>

\* ts_template.graph.edges[mapping[i], mapping[j]]['distance']
template_distance(t, bond) ==
    IF bond[1] \notin DOMAIN t.mapping \/ bond[2] \notin DOMAIN t.mapping THEN KeyError
    ELSE LET e == {t.mapping[bond[1]], t.mapping[bond[2]]}
         IN IF e \notin DOMAIN t.edges THEN KeyError
            ELSE IF "distance" \notin DOMAIN t.edges[e] THEN KeyError
            ELSE <<t.edges[e].distance>>

\* for active_bond in bond_rearrangement.all: try: dict[active_bond] = ... except KeyError
RECURSIVE bond_loop(_, _, _)
bond_loop(dists, t, bs) ==
    IF bs = <<>> THEN dists
    ELSE LET d == template_distance(t, bs[1])
         IN bond_loop(IF d = KeyError THEN dists ELSE (bs[1] :> d[1]) @@ dists, t, Tail(bs))

\* reactant.get_distance(*bond)
get_distance(obj, bond) == obj.atoms[bond]

too_far_ge(obj, bs) == \E k \in 1..Len(bs) : get_distance(obj, bs[k]) >= dist_thresh

\* any([reactant.get_distance(*bond) > dist_thresh for bond in bond_rearrangement.all])
too_far(obj, bs) == \E k \in 1..Len(bs) : get_distance(obj, bs[k]) > dist_thresh

\* len(active_bonds_and_dists_ts) == len(bond_rearrangement.all)
all_found(dists, bs) == Cardinality(DOMAIN dists) = Len(bs)

\* get_truncated_active_mol_graph(graph, active_bonds): a new graph, the active
\* bonds added as edges
get_truncated_active_mol_graph(graph, bs) == graph \cup {{bs[k][1], bs[k][2]} : k \in 1..Len(bs)}

\* the template the scan is at
Current == lib[ts.idx + 1]

\* lines 52-59: the call, up to the template loop
TSStart ==
    /\ ts.pc = "idle"
    /\ ts' = [ts EXCEPT !.pc = "scan", !.idx = 0,
                        !.active_bonds_and_dists_ts = <<>>,
                        !.mol_graph = get_truncated_active_mol_graph(objs[ReactantId].graph, bonds)]
    /\ UNCHANGED <<complexVars, callVars, genVars, lib, bonds, objs, calcs, result>>

\* a template that does not match: on to the next one
TSNoMatch ==
    /\ ts.pc = "scan"
    /\ ts.idx < Len(lib)
    /\ ~Current.matches
    /\ ts' = [ts EXCEPT !.idx = ts.idx + 1]
    /\ UNCHANGED <<complexVars, callVars, genVars, lib, bonds, objs, calcs, result>>

\* a matching template after which the dict holds fewer entries than there are bonds
TSIncomplete ==
    /\ ts.pc = "scan"
    /\ ts.idx < Len(lib)
    /\ Current.matches
    /\ LET dists == bond_loop(ts.active_bonds_and_dists_ts, Current, bonds)
       IN /\ ~all_found(dists, bonds)
          /\ ts' = [ts EXCEPT !.idx = ts.idx + 1, !.active_bonds_and_dists_ts = dists]
    /\ UNCHANGED <<complexVars, callVars, genVars, lib, bonds, objs, calcs, result>>

\* a matching template, the dict full, an active bond longer than dist_thresh: pass
TSTooFar ==
    /\ ts.pc = "scan"
    /\ ts.idx < Len(lib)
    /\ Current.matches
    /\ LET dists == bond_loop(ts.active_bonds_and_dists_ts, Current, bonds)
       IN /\ all_found(dists, bonds)
          /\ too_far(objs[ReactantId], bonds)
          /\ ts' = [ts EXCEPT !.idx = ts.idx + 1, !.active_bonds_and_dists_ts = dists]
    /\ UNCHANGED <<complexVars, callVars, genVars, lib, bonds, objs, calcs, result>>

\* the Calculation a constrained optimisation creates and runs on molecule mol
const_opt(heap, mol, consts, energy) ==
    [name |-> <<"r", "_template_", bonds, "_constrained_opt">>,
     molecule |-> mol,
     distance_constraints |-> consts,
     energy |-> energy,
     final_atoms |-> [b \in DOMAIN heap[mol].atoms |->
                         IF b \in DOMAIN consts THEN consts[b] ELSE heap[mol].atoms[b]]]

\* the same call without the return: the scan goes on after the optimisation
TSAccept_noreturn ==
    /\ ts.pc = "scan"
    /\ ts.idx < Len(lib)
    /\ Current.matches
    /\ LET dists == bond_loop(ts.active_bonds_and_dists_ts, Current, bonds)
       IN /\ all_found(dists, bonds)
          /\ ~too_far(objs[ReactantId], bonds)
          /\ ts' = [ts EXCEPT !.idx = ts.idx + 1, !.accepted = ts.idx + 1,
                              !.active_bonds_and_dists_ts = dists]
          /\ \E energy \in Energies :
                calcs' = Append(calcs, const_opt(objs, ReactantId, dists, energy))
    /\ UNCHANGED <<complexVars, callVars, genVars, lib, bonds, objs, result>>

deepcopy_reactant_alias(heap, id) == [id |-> id, heap |-> heap]

\* deepcopy(reactant): a new species object with the same content
deepcopy_reactant(heap, id) == [id |-> Len(heap) + 1, heap |-> Append(heap, heap[id])]

\* TSguess(atoms=const_opt.get_final_atoms(), reactant=reactant, product=product,
\*         name='ts_guess_const_opt'), then ts_guess.energy = const_opt.get_energy()
TSguess(job, reactant, product) ==
    [kind |-> "TSguess", name |-> "ts_guess_const_opt", atoms |-> job.final_atoms,
     energy |-> <<job.energy>>, reactant |-> reactant, product |-> product]

\* get_ts_guess_constrained_opt(reactant, ..., distance_consts, product): the job
\* returns some energy, and may or may not write its result into its molecule
get_ts_guess_constrained_opt(consts) ==
    \E energy \in Energies, writes \in BOOLEAN :
        LET c == deepcopy_reactant(objs, ReactantId)
            job == const_opt(c.heap, c.id, consts, energy)
        IN /\ objs' = IF writes
                      THEN [c.heap EXCEPT ![c.id].atoms = job.final_atoms,
                                          ![c.id].energy = <<energy>>]
                      ELSE c.heap
           /\ calcs' = Append(calcs, job)
           /\ result' = TSguess(job, ReactantId, ProductId)

\* a matching template, the dict full, no active bond too long: the constrained
\* optimisation is run and its guess returned
TSAccept ==
    /\ ts.pc = "scan"
    /\ ts.idx < Len(lib)
    /\ Current.matches
    /\ LET dists == bond_loop(ts.active_bonds_and_dists_ts, Current, bonds)
       IN /\ all_found(dists, bonds)
          /\ ~too_far(objs[ReactantId], bonds)
          /\ ts' = [ts EXCEPT !.pc = "done", !.accepted = ts.idx + 1,
                              !.active_bonds_and_dists_ts = dists]
          /\ get_ts_guess_constrained_opt(dists)
    /\ UNCHANGED <<complexVars, callVars, genVars, lib, bonds>>

\* the loop is exhausted: return None
TSExhausted ==
    /\ ts.pc = "scan"
    /\ ts.idx = Len(lib)
    /\ ts' = [ts EXCEPT !.pc = "done"]
    /\ result' = None
    /\ UNCHANGED <<complexVars, callVars, genVars, lib, bonds, objs, calcs>>

\* a reactant with its active bond lengths, a product, a library
InitTS ==
    /\ lib \in Libraries
    /\ bonds \in BondRearrangements
    /\ \E d1 \in ReactantDists, d2 \in ReactantDists :
          /\ Len(bonds) = 1 => d2 = 18
          /\ objs = <<[atoms |-> (Bond01 :> d1) @@ (Bond12 :> d2), energy |-> NoEnergy,
                       graph |-> {{0, 1}}],
                      [atoms |-> (Bond01 :> 30) @@ (Bond12 :> 15), energy |-> NoEnergy,
                       graph |-> {{1, 2}}]>>
    /\ ts = TSIdle
    /\ calcs = <<>>
    /\ result = Pending
    /\ molecules = <<>>
    /\ coord = <<>>
    /\ atoms = <<>>
    /\ charge = 0
    /\ mult = 1
    /\ lastCall = NoCall
    /\ nOps = 0
    /\ conformers = <<>>
    /\ gen = GenIdle

NextTS == TSStart \/ TSNoMatch \/ TSIncomplete \/ TSTooFar \/ TSAccept \/ TSExhausted

SpecTS == InitTS /\ [][NextTS]_vars

\* ------------------------------------------------------ claims: Complex
\* number of atoms of the molecules before molecule i (0-based i)
Offset(i) == SumSeq([j \in 1..i |-> Len(molecules[j].atoms)])

\* the atom ids of the molecules handed to the constructor, in order
RECURSIVE OriginalIds(_)
OriginalIds(mols) == IF mols = <<>> THEN <<>> ELSE mols[1].atoms \o OriginalIds(Tail(mols))

InRange(i) == i \in 0..(Len(molecules) - 1)

\* C1: for every molecule i in 0..k-1, get_atom_indexes(i) is the ascending list of
\* the n_i consecutive indices starting at n_0 + ... + n_(i-1); the lists of all
\* molecules are pairwise disjoint and together cover 0..n_atoms-1 of the combined
\* atom sequence; a get_atom_indexes call with such an i returns that list.
C1_AtomIndexPartition ==
    /\ \A i \in 0..(Len(molecules) - 1) :
          LET r == get_atom_indexes(molecules, i)
          IN /\ assert_mol_index(molecules, i)
             /\ Len(r) = Len(molecules[i + 1].atoms)
             /\ \A j \in 1..Len(r) : r[j] = Offset(i) + j - 1
    /\ UNION {SeqToSet(get_atom_indexes(molecules, i)) : i \in 0..(Len(molecules) - 1)}
          = 0..(Len(atoms) - 1)
    /\ \A i, j \in 0..(Len(molecules) - 1) :
          i # j => SeqToSet(get_atom_indexes(molecules, i))
                     \cap SeqToSet(get_atom_indexes(molecules, j)) = {}
    /\ (lastCall.op = "get_atom_indexes" /\ InRange(lastCall.mol_index))
          => /\ ~lastCall.raised
             /\ lastCall.ret = [j \in 1..Len(molecules[lastCall.mol_index + 1].atoms)
                                   |-> Offset(lastCall.mol_index) + j - 1]

\* get_atom_indexes returned the indexes 2.. of the second of two molecules
C1_Witness ==
    /\ lastCall.op = "get_atom_indexes"
    /\ ~lastCall.raised
    /\ Len(molecules) = 2
    /\ lastCall.mol_index = 1
    /\ lastCall.ret = <<2, 3>>

\* C3: every call of get_atom_indexes, translate_mol, rotate_mol or calc_repulsion
\* with a mol_index outside 0..len(molecules)-1 (negative ones included) raises,
\* and leaves every atom where it was.
C3_OutOfRangeFails ==
    [][(nOps' = nOps + 1 /\ ~InRange(lastCall'.mol_index))
          => (lastCall'.raised /\ coord' = coord)]_vars

\* what one call of translate_mol / rotate_mol does to a coordinate
Transformed(call, c) ==
    IF call.op = "translate_mol" THEN VAdd(c, call.ret)
    ELSE VAdd(Rotate(VSub(c, call.ret.origin), call.ret.axis, call.ret.theta),
              call.ret.origin)

\* C4: a translate_mol / rotate_mol call that returns transforms each atom whose
\* index is in get_atom_indexes(mol_index) exactly once (the rotation as
\* translate(-origin), rotate, translate(+origin)), leaves every other atom of the
\* complex where it was, and leaves the atoms of the molecules handed to the
\* constructor where they were.
C4_RigidTransformFrame ==
    [][(nOps' = nOps + 1 /\ lastCall'.op \in {"translate_mol", "rotate_mol"}
          /\ ~lastCall'.raised)
        => LET idxs == SeqToSet(get_atom_indexes(molecules, lastCall'.mol_index))
           IN /\ atoms' = atoms
              /\ \A j \in 0..(Len(atoms) - 1) :
                    coord'[atoms[j + 1]] =
                        IF j \in idxs THEN Transformed(lastCall', coord[atoms[j + 1]])
                                      ELSE coord[atoms[j + 1]]
              /\ \A a \in SeqToSet(OriginalIds(molecules)) : coord'[a] = coord[a]]_vars

\* the second of two molecules was rotated: its atoms left the places of the
\* constructor's atoms; those of the first molecule did not
C4_Witness ==
    /\ lastCall.op = "rotate_mol"
    /\ ~lastCall.raised
    /\ Len(molecules) = 2
    /\ lastCall.mol_index = 1
    /\ nOps = 1
    /\ \A j \in 1..Len(atoms) :
          (coord[atoms[j]] # coord[OriginalIds(molecules)[j]]) <=> (j - 1 >= Offset(1))

\* ------------------------------------------- claims: conformer generation
\* the first molecule's atoms shifted to its centroid
CentredFirst ==
    LET first == CoordsOf(coord, molecules[1].atoms)
    IN [j \in 1..Len(first) |-> VSub(first[j], Centroid(first))]

\* the second molecule's atoms shifted to its centroid and rotated by r
RotatedSecond(r) ==
    LET second == CoordsOf(coord, molecules[2].atoms)
    IN [j \in 1..Len(second) |-> Rotate(VSub(second[j], Centroid(second)), r.axis, r.theta)]

\* conformer number n (from 0) was made from rotation r and sphere point n % NumPoints:
\* the moved atoms are the rotated ones shifted a positive number of steps along it
MadeFrom(c, n, r) ==
    LET n0 == Len(molecules[1].atoms)
        moved == SubSeq(c.atoms, n0 + 1, Len(c.atoms))
        point == get_points_on_sphere(NumPoints)[(n % NumPoints) + 1]
        shift == VSub(moved[1], RotatedSecond(r)[1])
    IN /\ Len(moved) = Len(molecules[2].atoms)
       /\ Dot(shift, point) > 0
       /\ Dot(shift, point) % (StepTenths * Scale) = 0
       /\ shift = VScale(Dot(shift, point), point)
       /\ \A j \in 1..Len(moved) : moved[j] = VAdd(RotatedSecond(r)[j], shift)

CentroidsOverlap ==
    Centroid(CoordsOf(coord, molecules[1].atoms)) = Centroid(CoordsOf(coord, molecules[2].atoms))

\* the static and the moved atoms of a conformer are more than 2.0 Angstrom apart
Separated(c) ==
    LET n0 == Len(molecules[1].atoms)
    IN \A i \in 1..n0, j \in (n0 + 1)..Len(c.atoms) : Dist2(c.atoms[i], c.atoms[j]) > MinSep2

\* the number of passes the running while loop has made
ShiftSteps ==
    Dot(VSub(gen.shifted_atoms[1], gen.rotated_atoms[1]),
        get_points_on_sphere(NumPoints)[gen.pt + 1]) \div (StepTenths * Scale)

Abs(x) == IF x < 0 THEN -x ELSE x

\* an upper bound of the distance of any of the atoms from the origin
Reach(cs) == SetMax({Abs(cs[j][1]) + Abs(cs[j][2]) + Abs(cs[j][3]) : j \in 1..Len(cs)})

\* passes after which the moved atoms are certainly more than 2.0 Angstrom away
MaxShiftSteps ==
    ((MinSepTenths * Scale + Reach(gen.first_mol_atoms) + Reach(gen.rotated_atoms))
        \div (StepTenths * Scale)) + 1

\* C6: provided the two centroids do not overlap, every run of the loop that shifts
\* the second molecule by 0.1 Angstrom ends after finitely many passes (each pass
\* that stays in the loop is one more step along the point, and the loop is never
\* beyond the number of steps in which the separation is certainly reached); and in
\* every stored conformer each atom of the static molecule is more than
\* 2.0 Angstrom from each atom of the moved one.
C6_ShiftLoopEnds ==
    /\ [](\A n \in 1..Len(conformers) : Separated(conformers[n]))
    /\ []((gen.pc = "shift" /\ ~CentroidsOverlap) => ShiftSteps < MaxShiftSteps)
    /\ [][(gen.pc = "shift" /\ gen'.pc = "shift") => ShiftSteps' = ShiftSteps + 1]_vars

\* the same termination as a liveness property of FairSpecConformers: a run of the
\* while loop is always left
ShiftLoopTerminates == (gen.pc = "shift" /\ ~CentroidsOverlap) ~> (gen.pc # "shift")

\* a conformer of two two-atom molecules with distinct centroids has been stored
C6_Witness ==
    /\ ~CentroidsOverlap
    /\ Len(conformers) >= 1
    /\ Len(conformers[1].atoms) = 4
    /\ Separated(conformers[1])
    /\ gen.pc = "points"

\* --------------------------------------------------- claims: TS guess
\* template t holds a distance for the mapped edge of every active bond
Supplies(t) == \A k \in 1..Len(bonds) : template_distance(t, bonds[k]) # KeyError

\* C2: a template is accepted only if it matches and its graph holds, with a
\* distance, the mapped edge of every active bond, whatever was scanned before it.
C2_AcceptedSuppliesAll ==
    ts.accepted # 0 => (lib[ts.accepted].matches /\ Supplies(lib[ts.accepted]))

\* C7: a matching template that supplies a distance for every active bond is
\* passed over exactly when some active bond of the reactant is longer than
\* dist_thresh (4.0 Angstrom): the scan then goes on with the next template, nothing
\* is returned and no job is made; otherwise (a bond of exactly 4.0 Angstrom
\* included) the template is accepted.  With one such template in the library, a
\* bond of 4.5 Angstrom gives None and a bond of 1.8 Angstrom gives a guess
\* constrained to the template's distance.
C7_TooFarIsSkipped ==
    /\ [][(ts.pc = "scan" /\ ts.idx < Len(lib) /\ Current.matches /\ Supplies(Current))
            => IF \E k \in 1..Len(bonds) : objs[ReactantId].atoms[bonds[k]] > dist_thresh
               THEN /\ ts'.pc = "scan"
                    /\ ts'.idx = ts.idx + 1
                    /\ ts'.accepted = 0
                    /\ result' = Pending
                    /\ calcs' = calcs
               ELSE /\ ts'.pc = "done"
                    /\ ts'.accepted = ts.idx + 1
                    /\ result'.kind = "TSguess"
                    /\ Len(calcs') = 1]_vars
    /\ []((ts.pc = "done" /\ Len(lib) = 1 /\ bonds = <<Bond01>> /\ lib[1].matches
              /\ template_distance(lib[1], Bond01) = <<15>>)
            => /\ objs[ReactantId].atoms[Bond01] = 45 => (result = None /\ calcs = <<>>)
               /\ objs[ReactantId].atoms[Bond01] = 18
                     => /\ result.kind = "TSguess"
                        /\ calcs[1].distance_constraints = (Bond01 :> 15))

\* a complete, matching first template of two was passed over for a 4.5 Angstrom bond
C7_Witness ==
    /\ ts.pc = "scan"
    /\ ts.idx = 1
    /\ Len(lib) = 2
    /\ lib[1].matches
    /\ Supplies(lib[1])
    /\ objs[ReactantId].atoms[Bond01] = 45
    /\ calcs = <<>>

\* C8: None is returned exactly when the scan has reached the end of the library
\* with no template accepted, and then no optimisation job was made; an empty
\* library always ends so.
C8_NoneIffExhausted ==
    /\ (result = None) <=> (ts.pc = "done" /\ ts.accepted = 0 /\ ts.idx = Len(lib))
    /\ (result = None) => calcs = <<>>
    /\ ts.pc = "done" => result # Pending
    /\ (ts.pc = "done" /\ lib = <<>>) => (result = None /\ calcs = <<>>)

\* None was returned after two templates, the first of them matching
C8_Witness ==
    /\ result = None
    /\ Len(lib) = 2
    /\ ts.idx = 2
    /\ lib[1].matches
    /\ calcs = <<>>

\* C9: when a guess is returned, exactly one optimisation was run, no template
\* after the accepted one was examined, the job's constraints are the accepted
\* template's distances for the mapped edge of every active bond and nothing of
\* another template, and the guess returned is that job's.
C9_FirstAcceptedWins ==
    result.kind = "TSguess" =>
        /\ Len(calcs) = 1
        /\ ts.accepted = ts.idx + 1
        /\ DOMAIN calcs[1].distance_constraints = SeqToSet(bonds)
        /\ \A k \in 1..Len(bonds) :
              template_distance(lib[ts.accepted], bonds[k])
                  = <<calcs[1].distance_constraints[bonds[k]]>>
        /\ result.atoms = calcs[1].final_atoms

\* C10: the optimisation job is handed a new copy of the reactant; the caller's
\* reactant and product (atoms, energy, graph) are the same after every step of
\* the call as before it, on the path to a guess and on the path to None; the
\* guess returned has the job's final atoms and energy, and refers to the
\* caller's reactant and product.
C10_ReactantUntouched ==
    /\ [][/\ objs'[ReactantId] = objs[ReactantId]
          /\ objs'[ProductId] = objs[ProductId]
          /\ calcs' # calcs =>
                /\ calcs'[Len(calcs')].molecule \notin DOMAIN objs
                /\ calcs'[Len(calcs')].molecule \in DOMAIN objs']_vars
    /\ [](result.kind = "TSguess" =>
            /\ result.atoms = calcs[Len(calcs)].final_atoms
            /\ result.energy = <<calcs[Len(calcs)].energy>>
            /\ result.reactant = ReactantId
            /\ result.product = ProductId
            /\ result.name = "ts_guess_const_opt")

\* a guess was returned whose job wrote its result into its own molecule, with
\* atoms that differ from the reactant's
C10_Witness ==
    /\ result.kind = "TSguess"
    /\ Len(objs) = 3
    /\ objs[3].atoms # objs[ReactantId].atoms
    /\ objs[3].energy # NoEnergy
    /\ objs[ReactantId].energy = NoEnergy

============================================================================
